---------------------------- MODULE Spec2Model ----------------------------
(***************************************************************************)
(* A model of the RAG demonstration: the evaluation script's scoring       *)
(* functions and batch loop (evaluate.py) and the ingestion/query service  *)
(* (main.py).                                                              *)
(*                                                                         *)
(* A Python str is a sequence of one-character strings.  A float that is a *)
(* quotient of two counts is the pair [num, den] of the counts.  A dict is *)
(* a function whose domain is its set of keys.                             *)
(***************************************************************************)
EXTENDS Integers, Sequences, FiniteSets, TLC

VARIABLES
    call,               \* one call of a scoring function: its arguments and its return value
    ev_pc,              \* evaluate.main: position
    has_keywords,       \* evaluate.main: 'keywords' in df.columns
    df,                 \* evaluate.main: the rows of the evaluation data
    idx,                \* evaluate.main: number of rows the loop has processed
    response,           \* evaluate.main: what query_rag returned for the current row
    failed,             \* for each processed row, whether its request raised
    results,            \* evaluate.main: results
    total_hits,         \* evaluate.main: total_hits
    total_keyword_scores, \* evaluate.main: total_keyword_scores
    total_correct,      \* evaluate.main: total_correct
    results_csv,        \* the content of eval_results.csv (absent until written)
    data,               \* main.py: the files of ./data, the staging directory
    index,              \* main.py: index, the documents of the in-memory index
    storage,            \* main.py: the index as persisted in ./storage
    query_engine,       \* main.py: the global query_engine
    sv_cur,             \* the request whose handler holds the event loop (0: none)
    req                 \* main.py: the requests: endpoint, position, locals and response of each handler

evalVars == <<ev_pc, has_keywords, df, idx, response, failed, results,
              total_hits, total_keyword_scores, total_correct, results_csv>>

svcVars == <<data, index, storage, query_engine, sv_cur, req>>

vars == <<call, evalVars, svcVars>>

-----------------------------------------------------------------------------
(* Bounds of the model *)

MaxKwLen == 4
MaxAnsLen == 3
MaxNameLen == 2
MaxSources == 2
MaxKeywords == 1001
MaxRows == 2
NumRequests == 2
MaxBatch == 2
MaxNodes == 1

-----------------------------------------------------------------------------
(* Strings *)

RECURSIVE StringsUpTo(_, _)
StringsUpTo(chars, n) ==
    IF n = 0 THEN {<<>>}
    ELSE LET shorter == StringsUpTo(chars, n - 1)
         IN  shorter \cup {Append(s, c) : s \in {t \in shorter : Len(t) = n - 1}, c \in chars}

\* pandas reads an empty cell as the float NaN, which is not a str; the model
\* marks it with a value that no sequence of single characters equals.
NaN == <<"nan">>

\* str.lower on one character
LowerChar(c) ==
    CASE c = "A" -> "a"
      [] c = "B" -> "b"
      [] OTHER -> c

\* str.lower
lower(s) == [i \in 1..Len(s) |-> LowerChar(s[i])]

RECURSIVE lstrip(_)
lstrip(s) == IF s # <<>> /\ Head(s) = " " THEN lstrip(Tail(s)) ELSE s

RECURSIVE rstrip(_)
rstrip(s) == IF s # <<>> /\ s[Len(s)] = " " THEN rstrip(SubSeq(s, 1, Len(s) - 1)) ELSE s

\* str.strip
strip(s) == rstrip(lstrip(s))

\* str.split(','): the pieces between the commas, empty pieces included
RECURSIVE split(_)
split(s) ==
    IF \A i \in 1..Len(s) : s[i] # ","
    THEN <<s>>
    ELSE LET i == CHOOSE j \in 1..Len(s) : s[j] = "," /\ \A h \in 1..(j - 1) : s[h] # ","
         IN  <<SubSeq(s, 1, i - 1)>> \o split(SubSeq(s, i + 1, Len(s)))

\* needle in hay
contains(hay, needle) ==
    \E off \in 0..(Len(hay) - Len(needle)) : SubSeq(hay, off + 1, off + Len(needle)) = needle

\* dict.get(key, default)
Get(d, key, default) == IF key \in DOMAIN d THEN d[key] ELSE default

-----------------------------------------------------------------------------
(* Floats that are quotients of counts *)

Quotient(m, k) == [num |-> m, den |-> k]

Zero == Quotient(0, 1)

CORRECTNESS_THRESHOLD == Quotient(1, 2)

\* a >= b
Geq(a, b) == a.num * b.den >= b.num * a.den

\* a == b
RatEq(a, b) == a.num * b.den = b.num * a.den

\* round(x, 3), in thousandths.  Python rounds the double nearest to the
\* quotient; when the quotient lies exactly halfway between two thousandths the
\* double lies on one side or the other, so both neighbours are possible.
Round3(x) ==
    LET t == 1000 * x.num
        lo == t \div x.den
        rem == t % x.den
    IN  IF 2 * rem < x.den THEN {lo}
        ELSE IF 2 * rem > x.den THEN {lo + 1}
        ELSE {lo, lo + 1}

-----------------------------------------------------------------------------
(* evaluate.py: the scoring functions *)

\* lines 36-38: whether one source matches the expected file
SourceMatchesNoGuard(source, expected_pdf) ==
    contains(lower(Get(source, "filename", <<>>)), lower(expected_pdf))

SourceMatches(source, expected_pdf) ==
    LET filename == Get(source, "filename", <<>>)
    IN  expected_pdf # <<>> /\ contains(lower(filename), lower(expected_pdf))

RECURSIVE check_retrieval_hit(_, _)
check_retrieval_hit(sources, expected_pdf) ==
    IF sources = <<>> THEN FALSE
    ELSE IF SourceMatches(Head(sources), expected_pdf) THEN TRUE
    ELSE check_retrieval_hit(Tail(sources), expected_pdf)

\* the list comprehension of line 49
Keywords(keywords_str) ==
    LET parts == split(keywords_str)
        kept == SelectSeq(parts, LAMBDA kw : strip(kw) # <<>>)
    IN  [i \in 1..Len(kept) |-> lower(strip(kept[i]))]

calculate_keyword_match_CaseSensitive(generated_answer, keywords_str) ==
    IF keywords_str = <<>> \/ keywords_str = NaN THEN Zero
    ELSE LET keywords == Keywords(keywords_str)
             matches == Cardinality({i \in 1..Len(keywords) : contains(generated_answer, keywords[i])})
         IN  IF keywords = <<>> THEN Zero
             ELSE Quotient(matches, Len(keywords))

calculate_keyword_match(generated_answer, keywords_str) ==
    IF keywords_str = <<>> \/ keywords_str = NaN THEN Zero
    ELSE LET keywords == Keywords(keywords_str)
             generated_lower == lower(generated_answer)
             matches == Cardinality({i \in 1..Len(keywords) : contains(generated_lower, keywords[i])})
         IN  IF keywords = <<>> THEN Zero
             ELSE Quotient(matches, Len(keywords))

\* lines 103 and 119: the two fields of a result record that the score decides
ScoreFieldsStrict(keyword_score) ==
    {[keyword_score |-> r,
      is_correct |-> ~Geq(CORRECTNESS_THRESHOLD, keyword_score)] : r \in Round3(keyword_score)}

ScoreFields(keyword_score) ==
    {[keyword_score |-> r,
      is_correct |-> Geq(keyword_score, CORRECTNESS_THRESHOLD)] : r \in Round3(keyword_score)}

-----------------------------------------------------------------------------
(* main.py: the state of the service *)

SnippetLimit == 500

TXT == <<".", "t", "x", "t">>
PDF == <<".", "p", "d", "f">>

SUPPORTED_EXTENSIONS == {TXT, PDF}

\* str.endswith(suffixes)
endswith(s, suffixes) ==
    \E x \in suffixes : Len(s) >= Len(x) /\ SubSeq(s, Len(s) - Len(x) + 1, Len(s)) = x

\* the names an uploaded file can carry; "" is what an empty upload carries
UploadNames == {<<>>, <<"a">> \o TXT, <<"b">> \o PDF, <<"c", ".", "m", "d">>}

\* the files of ./data, in the order SimpleDirectoryReader reads them (by path)
SortedNames == <<(<<"a">> \o TXT), (<<"b">> \o PDF)>>

DataNames == {SortedNames[i] : i \in 1..Len(SortedNames)}

Batches == UNION {[1..n -> UploadNames] : n \in 1..MaxBatch}

Requests == 1..NumRequests

filter_file_format(files) ==
    [filtered_files |-> SelectSeq(files, LAMBDA f : endswith(f, SUPPORTED_EXTENSIONS)),
     removed_documents |-> SelectSeq(files, LAMBDA f : ~endswith(f, SUPPORTED_EXTENSIONS))]

\* reader.load_data(): one document per file of ./data, whatever has been written
\* of it so far, with metadata {"filename": path}
load_data(dir) ==
    LET present == SelectSeq(SortedNames, LAMBDA n : dir[n] # "absent")
    IN  [i \in 1..Len(present) |-> [filename |-> present[i], whole |-> dir[present[i]] = "whole"]]

\* index.as_query_engine(response_mode="tree_summarize"), line 52
StartupEngine == [response_mode |-> "tree_summarize", gen |-> 0]

\* update_query_engine: index.as_query_engine() takes the library's default
\* response mode, compact
update_query_engine(engine) == [response_mode |-> "compact", gen |-> engine.gen + 1]

\* a request that has not reached the service; invoked: whether its handler
\* called query_engine.query; log and inserted record what its handler did
NewRequest ==
    [pc |-> "new", endpoint |-> "none", upload |-> <<>>, query |-> <<>>, files |-> <<>>,
     removed_documents |-> <<>>, new_documents |-> <<>>, pos |-> 0, resp |-> 0,
     invoked |-> FALSE, sources |-> <<>>, log |-> <<>>, inserted |-> <<>>]

\* the service is not running
ServiceOff ==
    /\ data = <<>>
    /\ index = <<>>
    /\ storage = <<>>
    /\ query_engine = <<>>
    /\ sv_cur = 0
    /\ req = <<>>

-----------------------------------------------------------------------------
(* Inputs of the scoring functions *)

KwChars == {"a", "B", ",", " "}
AnsChars == {"a", "b", "B"}
NameChars == {"a", "b", "A"}

KeywordStrings == StringsUpTo(KwChars, MaxKwLen) \cup {NaN}
Answers == StringsUpTo(AnsChars, MaxAnsLen)
FileNames == StringsUpTo(NameChars, MaxNameLen)

\* a source of a response: with a filename, or without that key
Sources == {[filename |-> f] : f \in FileNames} \cup {[text |-> <<>>]}

SourceLists == UNION {[1..n -> Sources] : n \in 0..MaxSources}

\* the evaluation script is not running
EvalIdle ==
    /\ ev_pc = "off"
    /\ has_keywords = TRUE
    /\ df = <<>>
    /\ idx = 0
    /\ response = <<>>
    /\ failed = <<>>
    /\ results = <<>>
    /\ total_hits = 0
    /\ total_keyword_scores = Zero
    /\ total_correct = 0
    /\ results_csv = <<>>

InitKeyword ==
    /\ \E a \in Answers : \E k \in KeywordStrings :
          call = [fn |-> "calculate_keyword_match", generated_answer |-> a,
                  keywords_str |-> k, returned |-> FALSE, ret |-> Zero]
    /\ EvalIdle
    /\ ServiceOff

CallKeywordMatch ==
    /\ call.fn = "calculate_keyword_match"
    /\ ~call.returned
    /\ call' = [call EXCEPT !.returned = TRUE,
                            !.ret = calculate_keyword_match(call.generated_answer, call.keywords_str)]
    /\ UNCHANGED <<evalVars, svcVars>>

SpecKeyword == InitKeyword /\ [][CallKeywordMatch]_vars

InitHit ==
    /\ \E s \in SourceLists : \E e \in FileNames :
          call = [fn |-> "check_retrieval_hit", sources |-> s, expected_pdf |-> e,
                  returned |-> FALSE, ret |-> FALSE]
    /\ EvalIdle
    /\ ServiceOff

CallRetrievalHit ==
    /\ call.fn = "check_retrieval_hit"
    /\ ~call.returned
    /\ call' = [call EXCEPT !.returned = TRUE,
                            !.ret = check_retrieval_hit(call.sources, call.expected_pdf)]
    /\ UNCHANGED <<evalVars, svcVars>>

SpecHit == InitHit /\ [][CallRetrievalHit]_vars

\* the score is what line 57 can return: m matches among k keywords (0.0, which
\* lines 46 and 51 return, is 0 matches)
InitScore ==
    /\ \E k \in 1..MaxKeywords : \E m \in 0..k :
          call = [fn |-> "score_fields", keyword_score |-> Quotient(m, k), returned |-> FALSE,
                  ret |-> [keyword_score |-> 0, is_correct |-> FALSE]]
    /\ EvalIdle
    /\ ServiceOff

CallScoreFields ==
    /\ call.fn = "score_fields"
    /\ ~call.returned
    /\ \E f \in ScoreFields(call.keyword_score) :
          call' = [call EXCEPT !.returned = TRUE, !.ret = f]
    /\ UNCHANGED <<evalVars, svcVars>>

SpecScore == InitScore /\ [][CallScoreFields]_vars

-----------------------------------------------------------------------------
(* evaluate.py: the batch loop of main *)

CsvAnswerLimit == 500

\* s[:n]
Truncate(s, n) == SubSeq(s, 1, IF Len(s) < n THEN Len(s) ELSE n)

\* ', '.join(names)
RECURSIVE Join(_)
Join(names) ==
    IF names = <<>> THEN <<>>
    ELSE IF Len(names) = 1 THEN names[1]
    ELSE names[1] \o <<",", " ">> \o Join(Tail(names))

\* a + b
Add(a, b) == Quotient(a.num * b.den + b.num * a.den, a.den * b.den)

\* the cells of a row that the loop reads; an empty cell is NaN
RowCells ==
    [pdf_filename : {NaN, <<"a">>},
     keywords : {NaN, <<"a">>, <<"a", ",", "b">>}]

DataFrames ==
    UNION {{[i \in 1..n |-> [query_id |-> i, pdf_filename |-> c[i].pdf_filename,
                             keywords |-> c[i].keywords]] : c \in [1..n -> RowCells]} :
           n \in 0..MaxRows}

\* what one GET can do: raise a RequestException, or return the service's JSON
QueryOutcomes ==
    {[raised |-> TRUE, json |-> [answer |-> <<>>, sources |-> <<>>]]} \cup
    {[raised |-> FALSE, json |-> [answer |-> a, sources |-> s]] :
        a \in {<<>>, <<"A">>, <<"a", "b">>},
        s \in {<<>>, <<[filename |-> <<"A">>]>>, <<[text |-> <<>>]>>}}

query_rag(outcome) ==
    IF outcome.raised THEN [answer |-> <<>>, sources |-> <<>>] ELSE outcome.json

InitEval ==
    /\ call = [fn |-> "none", returned |-> FALSE]
    /\ ev_pc = "start"
    /\ has_keywords \in BOOLEAN
    /\ df \in DataFrames
    /\ idx = 0
    /\ response = [answer |-> <<>>, sources |-> <<>>]
    /\ failed = <<>>
    /\ results = <<>>
    /\ total_hits = 0
    /\ total_keyword_scores = Zero
    /\ total_correct = 0
    /\ results_csv = [written |-> FALSE, rows |-> <<>>]
    /\ ServiceOff

\* lines 73-87: load the data, return early without a keywords column
Start ==
    /\ ev_pc = "start"
    /\ ev_pc' = IF has_keywords THEN "loop" ELSE "returned"
    /\ UNCHANGED <<call, has_keywords, df, idx, response, failed, results, total_hits,
                   total_keyword_scores, total_correct, results_csv, svcVars>>

\* lines 89-121: one pass of the loop.  With an empty pdf_filename cell (NaN, which
\* is truthy) line 38 calls NaN.lower() for the first source, and the
\* AttributeError leaves main.
Iterate ==
    /\ ev_pc = "loop"
    /\ idx < Len(df)
    /\ \E outcome \in QueryOutcomes :
          LET row == df[idx + 1]
              resp == query_rag(outcome)
              generated_answer == resp.answer
              sources == resp.sources
          IN  /\ response' = resp
              /\ IF row.pdf_filename = NaN /\ sources # <<>>
                 THEN /\ ev_pc' = "aborted"
                      /\ UNCHANGED <<idx, failed, results, total_hits,
                                     total_keyword_scores, total_correct>>
                 ELSE LET hit == check_retrieval_hit(sources, row.pdf_filename)
                          keyword_score == calculate_keyword_match(generated_answer, row.keywords)
                      IN  \E f \in ScoreFields(keyword_score) :
                            /\ ev_pc' = "loop"
                            /\ idx' = idx + 1
                            /\ failed' = Append(failed, outcome.raised)
                            /\ total_hits' = total_hits + (IF hit THEN 1 ELSE 0)
                            /\ total_keyword_scores' = Add(total_keyword_scores, keyword_score)
                            /\ total_correct' = total_correct + (IF f.is_correct THEN 1 ELSE 0)
                            /\ results' = Append(results,
                                  [query_id |-> row.query_id,
                                   expected_pdf |-> row.pdf_filename,
                                   keywords |-> row.keywords,
                                   generated_answer |-> Truncate(generated_answer, CsvAnswerLimit),
                                   retrieved_sources |->
                                       Join([i \in 1..Len(sources) |-> Get(sources[i], "filename", <<>>)]),
                                   retrieval_hit |-> hit,
                                   keyword_score |-> f.keyword_score,
                                   is_correct |-> f.is_correct])
    /\ UNCHANGED <<call, has_keywords, df, results_csv, svcVars>>

\* lines 123-151: the aggregates divide by n = len(df), so an empty data file
\* raises ZeroDivisionError at line 125, before the results are written
Finish ==
    /\ ev_pc = "loop"
    /\ idx = Len(df)
    /\ IF Len(df) = 0
       THEN ev_pc' = "aborted" /\ UNCHANGED results_csv
       ELSE ev_pc' = "done" /\ results_csv' = [written |-> TRUE, rows |-> results]
    /\ UNCHANGED <<call, has_keywords, df, idx, response, failed, results, total_hits,
                   total_keyword_scores, total_correct, svcVars>>

NextEval == Start \/ Iterate \/ Finish

SpecEval == InitEval /\ [][NextEval]_vars

-----------------------------------------------------------------------------
(* main.py: the ingestion and query service *)

\* lines 34-52: without ./storage the index is built from the files of ./data
\* (the reader raises when there is none) and persisted; with ./storage the
\* index is loaded from it, whatever ./data holds
InitService ==
    /\ data \in [DataNames -> {"absent", "whole"}]
    /\ \/ /\ load_data(data) # <<>>
          /\ index = load_data(data)
       \/ index = <<[filename |-> SortedNames[1], whole |-> TRUE]>>
    /\ storage = index
    /\ query_engine = StartupEngine
    /\ sv_cur = 0
    /\ req = [r \in Requests |-> NewRequest]

Logged(rq, step, ok) == [rq EXCEPT !.log = Append(@, [step |-> step, ok |-> ok])]

\* an except clause: JSONResponse(status_code=500, ...)
Raised(rq, step) == [Logged(rq, step, FALSE) EXCEPT !.pc = "done", !.resp = 500]

\* a handler starts when the event loop is free; requests are numbered in the
\* order in which their handlers start
Starts(r) ==
    /\ sv_cur = 0
    /\ req[r].pc = "new"
    /\ \A o \in Requests : o < r => req[o].pc # "new"

IngestStart_Locked(r) ==
    /\ Starts(r)
    /\ \A o \in Requests : req[o].pc \in {"new", "done"}
    /\ \E files \in Batches :
          LET f == filter_file_format(files)
          IN  IF (Len(files) = 1 /\ files[1] = <<>>) \/ f.filtered_files = <<>>
              THEN /\ req' = [req EXCEPT ![r] = [@ EXCEPT !.pc = "done", !.endpoint = "ingest",
                                 !.upload = files,
                                 !.removed_documents =
                                     IF Len(files) = 1 /\ files[1] = <<>> THEN <<>>
                                     ELSE f.removed_documents,
                                 !.resp = IF Len(files) = 1 /\ files[1] = <<>> THEN 400 ELSE 200]]
                   /\ UNCHANGED sv_cur
              ELSE /\ req' = [req EXCEPT ![r] = [@ EXCEPT !.pc = "open", !.endpoint = "ingest",
                                 !.upload = files, !.files = f.filtered_files,
                                 !.removed_documents = f.removed_documents, !.pos = 1]]
                   /\ sv_cur' = r
    /\ UNCHANGED <<data, index, storage, query_engine, call, evalVars>>

\* lines 85-95 (and 136 when the filter leaves nothing)
IngestStart(r) ==
    /\ Starts(r)
    /\ \E files \in Batches :
          IF Len(files) = 1 /\ files[1] = <<>>
          THEN /\ req' = [req EXCEPT ![r] = [@ EXCEPT !.pc = "done", !.endpoint = "ingest",
                                                     !.upload = files, !.resp = 400]]
               /\ UNCHANGED sv_cur
          ELSE LET f == filter_file_format(files)
               IN  IF f.filtered_files = <<>>
                   THEN /\ req' = [req EXCEPT ![r] = [@ EXCEPT !.pc = "done", !.endpoint = "ingest",
                                      !.upload = files,
                                      !.removed_documents = f.removed_documents, !.resp = 200]]
                        /\ UNCHANGED sv_cur
                   ELSE /\ req' = [req EXCEPT ![r] = [@ EXCEPT !.pc = "open", !.endpoint = "ingest",
                                      !.upload = files,
                                      !.files = f.filtered_files,
                                      !.removed_documents = f.removed_documents, !.pos = 1]]
                        /\ sv_cur' = r
    /\ UNCHANGED <<data, index, storage, query_engine, call, evalVars>>

\* lines 98-100: open(out_file_path, 'wb') creates or truncates the file
OpenFile(r) ==
    /\ sv_cur = r
    /\ req[r].pc = "open"
    /\ \/ /\ data' = [data EXCEPT ![req[r].files[req[r].pos]] = "partial"]
          /\ req' = [req EXCEPT ![r] = [@ EXCEPT !.pc = "read"]]
          /\ UNCHANGED sv_cur
       \/ /\ req' = [req EXCEPT ![r] = Raised(@, "stage")]
          /\ sv_cur' = 0
          /\ UNCHANGED data
    /\ UNCHANGED <<index, storage, query_engine, call, evalVars>>

\* line 103: await file.read(...) gives the event loop to other handlers when
\* the upload is spooled to disk
Suspend(r) ==
    /\ sv_cur = r
    /\ req[r].pc = "read"
    /\ req' = [req EXCEPT ![r] = [@ EXCEPT !.pc = "await"]]
    /\ sv_cur' = 0
    /\ UNCHANGED <<data, index, storage, query_engine, call, evalVars>>

\* another handler is suspended inside its with-block on the same path
OpenElsewhere(r, name) ==
    \E o \in Requests \ {r} : req[o].pc = "await" /\ req[o].files[req[o].pos] = name

\* lines 101-109: the read returns (at once, or when the handler is resumed):
\* a chunk is written, or the empty chunk ends the file and the with-block closes
\* it, or the read or the write raises.  A file unlinked meanwhile stays gone.
ReadChunk(r) ==
    /\ \/ sv_cur = r /\ req[r].pc = "read"
       \/ sv_cur = 0 /\ req[r].pc = "await"
    /\ LET name == req[r].files[req[r].pos]
       IN  \/ /\ req' = [req EXCEPT ![r] = [@ EXCEPT !.pc = "read"]]
              /\ sv_cur' = r
              /\ UNCHANGED data
           \/ /\ data' = [data EXCEPT ![name] =
                            IF @ = "absent" THEN "absent"
                            ELSE IF OpenElsewhere(r, name) THEN "partial" ELSE "whole"]
              /\ req' = [req EXCEPT ![r] =
                            [Logged(@, "stage", TRUE) EXCEPT
                                !.new_documents = Append(@, name),
                                !.pos = IF req[r].pos = Len(req[r].files) THEN 0 ELSE req[r].pos + 1,
                                !.pc = IF req[r].pos = Len(req[r].files) THEN "insert" ELSE "open"]]
              /\ sv_cur' = r
           \/ /\ req' = [req EXCEPT ![r] = Raised(@, "stage")]
              /\ sv_cur' = 0
              /\ UNCHANGED data
    /\ UNCHANGED <<index, storage, query_engine, call, evalVars>>

\* lines 112-118: every file of ./data is loaded and inserted; the reader raises
\* when the directory is empty, and a failure leaves what was inserted before it
Insert(r) ==
    /\ sv_cur = r
    /\ req[r].pc = "insert"
    /\ LET documents == load_data(data)
       IN  \E n \in 0..Len(documents) :
              /\ index' = index \o SubSeq(documents, 1, n)
              /\ IF n = Len(documents) /\ documents # <<>>
                 THEN /\ req' = [req EXCEPT ![r] =
                                   [Logged(@, "insert", TRUE) EXCEPT
                                       !.inserted = @ \o SubSeq(documents, 1, n),
                                       !.pc = "persist"]]
                      /\ UNCHANGED sv_cur
                 ELSE /\ req' = [req EXCEPT ![r] =
                                   [Raised(@, "insert") EXCEPT
                                       !.inserted = @ \o SubSeq(documents, 1, n)]]
                      /\ sv_cur' = 0
    /\ UNCHANGED <<data, storage, query_engine, call, evalVars>>

Persist_Continue(r) ==
    /\ sv_cur = r
    /\ req[r].pc = "persist"
    /\ \/ /\ storage' = index
          /\ req' = [req EXCEPT ![r] = [Logged(@, "persist", TRUE) EXCEPT !.pc = "rebuild"]]
       \/ /\ req' = [req EXCEPT ![r] = [Logged(@, "persist", FALSE) EXCEPT !.pc = "rebuild"]]
          /\ UNCHANGED storage
    /\ UNCHANGED <<data, index, query_engine, sv_cur, call, evalVars>>

\* line 122 (and its except clause, 124-125)
Persist(r) ==
    /\ sv_cur = r
    /\ req[r].pc = "persist"
    /\ \/ /\ storage' = index
          /\ req' = [req EXCEPT ![r] = [Logged(@, "persist", TRUE) EXCEPT !.pc = "rebuild"]]
          /\ UNCHANGED sv_cur
       \/ /\ req' = [req EXCEPT ![r] = Raised(@, "persist")]
          /\ sv_cur' = 0
          /\ UNCHANGED storage
    /\ UNCHANGED <<data, index, query_engine, call, evalVars>>

\* line 123 (and its except clause, 124-125)
Rebuild(r) ==
    /\ sv_cur = r
    /\ req[r].pc = "rebuild"
    /\ \/ /\ query_engine' = update_query_engine(query_engine)
          /\ req' = [req EXCEPT ![r] = [Logged(@, "rebuild", TRUE) EXCEPT !.pc = "cleanup", !.pos = 1]]
          /\ UNCHANGED sv_cur
       \/ /\ req' = [req EXCEPT ![r] = Raised(@, "rebuild")]
          /\ sv_cur' = 0
          /\ UNCHANGED query_engine
    /\ UNCHANGED <<data, index, storage, call, evalVars>>

\* lines 129-136: os.unlink of the next staged path; a path that is gone raises
\* FileNotFoundError; after the last one the handler returns its message
Unlink(r) ==
    /\ sv_cur = r
    /\ req[r].pc = "cleanup"
    /\ LET name == req[r].new_documents[req[r].pos]
       IN  \/ /\ data[name] # "absent"
              /\ data' = [data EXCEPT ![name] = "absent"]
              /\ IF req[r].pos = Len(req[r].new_documents)
                 THEN /\ req' = [req EXCEPT ![r] =
                                   [Logged(@, "unlink", TRUE) EXCEPT !.pc = "done", !.resp = 200]]
                      /\ sv_cur' = 0
                 ELSE /\ req' = [req EXCEPT ![r] =
                                   [Logged(@, "unlink", TRUE) EXCEPT !.pos = req[r].pos + 1]]
                      /\ UNCHANGED sv_cur
           \/ /\ req' = [req EXCEPT ![r] = Raised(@, "unlink")]
              /\ sv_cur' = 0
              /\ UNCHANGED data
    /\ UNCHANGED <<index, storage, query_engine, call, evalVars>>

Queries == {<<>>, <<"q">>}

search_query_ValidateLate(r) ==
    /\ Starts(r)
    /\ \E query \in Queries : \E raised \in BOOLEAN :
          req' = [req EXCEPT ![r] = [@ EXCEPT !.pc = "done", !.endpoint = "query",
                                        !.query = query, !.invoked = TRUE,
                                        !.resp = IF query = <<>> THEN 400
                                                 ELSE IF raised THEN 500 ELSE 200]]
    /\ UNCHANGED <<data, index, storage, query_engine, sv_cur, call, evalVars>>

\* lines 139-150
search_query(r) ==
    /\ Starts(r)
    /\ \E query \in Queries :
          IF query = <<>>
          THEN req' = [req EXCEPT ![r] = [@ EXCEPT !.pc = "done", !.endpoint = "query",
                                             !.query = query, !.resp = 400]]
          ELSE \E raised \in BOOLEAN :
                 req' = [req EXCEPT ![r] = [@ EXCEPT !.pc = "done", !.endpoint = "query",
                                               !.query = query, !.invoked = TRUE,
                                               !.resp = IF raised THEN 500 ELSE 200]]
    /\ UNCHANGED <<data, index, storage, query_engine, sv_cur, call, evalVars>>

\* what the index response can expose: node.node with or without text and
\* metadata, the metadata empty, with a filename or with other keys only; a node
\* with or without a score
NoAttrs == [x \in {} |-> x]

LongText == [i \in 1..(SnippetLimit + 1) |-> "x"]

InnerNodes ==
    {t @@ m : t \in {NoAttrs, "text" :> <<"x">>, "text" :> LongText},
              m \in {NoAttrs, "metadata" :> NoAttrs,
                     "metadata" :> ("filename" :> SortedNames[1]),
                     "metadata" :> ("page" :> <<"1">>)}}

Nodes == {("node" :> i) @@ sc : i \in InnerNodes, sc \in {NoAttrs, "score" :> "0.8"}}

EngineResponses ==
    {NoAttrs} \cup {"source_nodes" :> ns : ns \in UNION {[1..n -> Nodes] : n \in 0..MaxNodes}}

\* lines 166-174
source_info(node) ==
    LET base == ("text" :> (IF "text" \in DOMAIN node.node
                            THEN Truncate(node.node.text, SnippetLimit) ELSE <<>>))
                @@ ("score" :> (IF "score" \in DOMAIN node THEN node.score ELSE "None"))
    IN  IF "metadata" \in DOMAIN node.node /\ DOMAIN node.node.metadata # {}
        THEN base @@ ("filename" :> Get(node.node.metadata, "filename", <<>>))
                  @@ ("metadata" :> node.node.metadata)
        ELSE base

\* lines 154-182
query_with_context(r) ==
    /\ Starts(r)
    /\ \E query \in Queries :
          IF query = <<>>
          THEN req' = [req EXCEPT ![r] = [@ EXCEPT !.pc = "done", !.endpoint = "query_with_context",
                                             !.query = query, !.resp = 400]]
          ELSE \/ req' = [req EXCEPT ![r] = [@ EXCEPT !.pc = "done", !.endpoint = "query_with_context",
                                                !.query = query, !.invoked = TRUE, !.resp = 500]]
               \/ \E answer \in EngineResponses :
                    req' = [req EXCEPT ![r] =
                              [@ EXCEPT !.pc = "done", !.endpoint = "query_with_context",
                                        !.query = query, !.invoked = TRUE, !.resp = 200,
                                        !.sources = IF "source_nodes" \in DOMAIN answer
                                                    THEN [i \in 1..Len(answer.source_nodes) |->
                                                             source_info(answer.source_nodes[i])]
                                                    ELSE <<>>]]
    /\ UNCHANGED <<data, index, storage, query_engine, sv_cur, call, evalVars>>

Init ==
    /\ call = [fn |-> "none", returned |-> FALSE]
    /\ EvalIdle
    /\ InitService

Next ==
    \E r \in Requests :
          \/ IngestStart(r)
          \/ OpenFile(r)
          \/ Suspend(r)
          \/ ReadChunk(r)
          \/ Insert(r)
          \/ Persist(r)
          \/ Rebuild(r)
          \/ Unlink(r)
          \/ search_query(r)
          \/ query_with_context(r)

Spec == Init /\ [][Next]_vars

-----------------------------------------------------------------------------
(* Claims about the scoring functions *)

\* The terms of a keywords string, stated on positions: a term starts at the
\* beginning of the string or right after a comma and runs to the next comma.
TermStarts(s) == {i \in 1..(Len(s) + 1) : i = 1 \/ s[i - 1] = ","}

TermEnd(s, i) ==
    CHOOSE j \in (i - 1)..Len(s) :
        /\ \A p \in i..j : s[p] # ","
        /\ j = Len(s) \/ s[j + 1] = ","

\* the positions of a term that are not whitespace
TermInk(s, i) == {p \in i..TermEnd(s, i) : s[p] # " "}

\* a term occurs in the answer, letter case ignored, whitespace around it dropped
TermFound(s, i, answer) ==
    LET lo == CHOOSE p \in TermInk(s, i) : \A q \in TermInk(s, i) : p <= q
        hi == CHOOSE p \in TermInk(s, i) : \A q \in TermInk(s, i) : p >= q
    IN  \E off \in 0..(Len(answer) - (hi - lo + 1)) :
            \A p \in lo..hi : LowerChar(answer[off + 1 + p - lo]) = LowerChar(s[p])

\* C1: calculate_keyword_match returns m/k when k non-empty terms remain after
\* splitting on commas and trimming, m of them found in the answer with letter case
\* ignored; it returns 0.0 when no term remains (empty, missing or only-separator
\* keywords); so the score lies in [0,1].
C1_KeywordScore ==
    (call.fn = "calculate_keyword_match" /\ call.returned) =>
        LET s == call.keywords_str
            terms == IF s = NaN THEN {} ELSE {i \in TermStarts(s) : TermInk(s, i) # {}}
            k == Cardinality(terms)
            m == Cardinality({i \in terms : TermFound(s, i, call.generated_answer)})
        IN  /\ k = 0 => call.ret = Zero
            /\ k > 0 => RatEq(call.ret, Quotient(m, k))
            /\ call.ret.den > 0
            /\ 0 <= call.ret.num /\ call.ret.num <= call.ret.den

\* a call with two terms, one padded with a blank, one of them found in another letter case
C1_Witness ==
    /\ call.fn = "calculate_keyword_match" /\ call.returned
    /\ call.ret = Quotient(1, 2)
    /\ call.keywords_str = <<"a", ",", " ", "B">>
    /\ call.generated_answer = <<"b">>

\* C3: check_retrieval_hit is true exactly when expected_pdf is non-empty and its
\* lowercased form is a substring of the lowercased filename of some source, a
\* source without a filename counting as filename ""; so it is false for an empty
\* source list and for an empty expected_pdf.
C3_RetrievalHit ==
    (call.fn = "check_retrieval_hit" /\ call.returned) =>
        LET e == call.expected_pdf
            NameOf(src) == IF "filename" \in DOMAIN src THEN src.filename ELSE <<>>
            In(name) == \E off \in 0..(Len(name) - Len(e)) :
                            \A p \in 1..Len(e) : LowerChar(name[off + p]) = LowerChar(e[p])
        IN  /\ call.ret <=> (e # <<>> /\ \E n \in 1..Len(call.sources) : In(NameOf(call.sources[n])))
            /\ call.sources = <<>> => ~call.ret
            /\ e = <<>> => ~call.ret

\* a hit on the second source, in another letter case, after a source without a filename
C3_Witness ==
    /\ call.fn = "check_retrieval_hit" /\ call.returned
    /\ call.ret
    /\ Len(call.sources) = 2
    /\ "filename" \notin DOMAIN call.sources[1]
    /\ call.sources[2] = [filename |-> <<"b", "A">>]
    /\ call.expected_pdf = <<"a">>

\* C2 as stated: is_correct <=> the stored (rounded) keyword_score >= 0.5
C2_StoredScoreDecides ==
    (call.fn = "score_fields" /\ call.returned) =>
        (call.ret.is_correct <=> call.ret.keyword_score >= 500)

\* C2, amended: is_correct <=> the unrounded score >= 0.5; for the stored score,
\* is_correct implies stored >= 0.5, stored > 0.5 implies is_correct, and a stored
\* score of exactly 0.5 is marked correct whenever the row has at most 1000 keywords.
C2_UnroundedScoreDecides ==
    (call.fn = "score_fields" /\ call.returned) =>
        LET x == call.keyword_score
            stored == call.ret.keyword_score
        IN  /\ call.ret.is_correct <=> 2 * x.num >= x.den
            /\ call.ret.is_correct => stored >= 500
            /\ stored > 500 => call.ret.is_correct
            /\ x.den <= 1000 => (call.ret.is_correct <=> stored >= 500)
            /\ 0 <= stored /\ stored <= 1000

\* a score that is not one half, stored as 0.5 and marked correct
C2_Witness ==
    /\ call.fn = "score_fields" /\ call.returned
    /\ call.ret.keyword_score = 500
    /\ call.ret.is_correct
    /\ ~RatEq(call.keyword_score, CORRECTNESS_THRESHOLD)

-----------------------------------------------------------------------------
(* Claims about the batch loop *)

\* C4: whatever the data and whichever requests fail, the run never aborts; it
\* handles the rows in order and ends with one result per row, and a row whose
\* request failed is scored as answer "" with no sources (no hit, score 0, not
\* correct).
C4_BatchNeverAborts ==
    (ev_pc # "off" /\ has_keywords) =>
        /\ ev_pc # "aborted"
        /\ Len(results) = idx
        /\ \A i \in 1..Len(results) :
              /\ results[i].query_id = df[i].query_id
              /\ failed[i] => /\ ~results[i].retrieval_hit
                              /\ results[i].keyword_score = 0
                              /\ ~results[i].is_correct
        /\ ev_pc = "done" => results_csv.written /\ Len(results_csv.rows) = Len(df)

-----------------------------------------------------------------------------
(* Claims about the service *)

Ingests == {r \in Requests : req[r].endpoint = "ingest"}

\* what the handler of request r has done last
LastStep(r) == req[r].log[Len(req[r].log)]

\* the handler of request r takes a step that its log records
Steps(r) == Len(req'[r].log) = Len(req[r].log) + 1

Did(r, step) == \E i \in 1..Len(req[r].log) : req[r].log[i] = [step |-> step, ok |-> TRUE]

\* C5: a rejected request has no effect: an ingest whose batch is one file named ""
\* and a query or query_with_context whose query is "" are answered 400, and the
\* step that answers 400 writes no file, leaves the index, the persisted index
\* and the query handle as they are, and does not invoke the query engine.
C5_RejectionHasNoEffect ==
    /\ [](\A r \in Requests :
            /\ (req[r].endpoint = "ingest" /\ req[r].upload = << <<>> >>) => req[r].resp = 400
            /\ (req[r].endpoint \in {"query", "query_with_context"} /\ req[r].query = <<>>)
                  => req[r].resp = 400
            /\ req[r].resp = 400 =>
                  /\ ~req[r].invoked
                  /\ req[r].log = <<>> /\ req[r].inserted = <<>> /\ req[r].new_documents = <<>>)
    /\ [][\A r \in Requests :
            (req'[r].resp = 400 /\ req[r].resp # 400) =>
                UNCHANGED <<data, index, storage, query_engine>>]_vars

\* an upload of one file named "" and a query "" both rejected, the service
\* holding a staged file and a non-empty index
C5_Witness ==
    \E r, q \in Requests :
        /\ req[r].endpoint = "ingest" /\ req[r].upload = << <<>> >> /\ req[r].resp = 400
        /\ req[q].endpoint = "query_with_context" /\ req[q].query = <<>> /\ req[q].resp = 400
        /\ \E n \in DataNames : data[n] = "whole"
        /\ index # <<>>

StepRank(step) ==
    CASE step = "stage" -> 1
      [] step = "insert" -> 2
      [] step = "persist" -> 3
      [] step = "rebuild" -> 4
      [] step = "unlink" -> 5

\* C6: the handler of an upload with accepted files stages every file, then
\* inserts, then persists, then rebuilds the query handle, then deletes the
\* staged files; a step that fails is answered 500 and is the handler's last; the
\* handle is rebuilt only right after the persist of the same request, staged
\* files are deleted only after its rebuild, and the index never loses a document.
C6_StepsInOrder ==
    /\ [](\A r \in Ingests :
            LET L == req[r].log
                staged == Cardinality({i \in 1..Len(L) : L[i].step = "stage" /\ L[i].ok})
                unlinked == Cardinality({i \in 1..Len(L) : L[i].step = "unlink" /\ L[i].ok})
            IN  /\ L # <<>> => L[1].step = "stage"
                /\ \A i \in 1..(Len(L) - 1) :
                      /\ L[i].ok
                      /\ \/ StepRank(L[i + 1].step) = StepRank(L[i].step) + 1
                         \/ L[i + 1].step = L[i].step /\ L[i].step \in {"stage", "unlink"}
                /\ \A i \in 1..Len(L) : L[i].step = "insert" => staged = Len(req[r].files)
                /\ staged <= Len(req[r].files) /\ unlinked <= Len(req[r].files)
                /\ req[r].resp = 500 <=> (L # <<>> /\ ~LastStep(r).ok)
                /\ (req[r].resp = 200 /\ req[r].files # <<>>) =>
                      (LastStep(r).step = "unlink" /\ unlinked = Len(req[r].files))
                /\ req[r].resp # 0 <=> req[r].pc = "done"
                /\ \A i \in 1..Len(req[r].inserted) :
                      \E j \in 1..Len(index) : index[j] = req[r].inserted[i])
    /\ [][/\ Len(index) <= Len(index') /\ SubSeq(index', 1, Len(index)) = index
          /\ query_engine' # query_engine =>
                \E r \in Ingests :
                    /\ Steps(r)
                    /\ LastStep(r) = [step |-> "persist", ok |-> TRUE]
                    /\ req'[r].log = Append(req[r].log, [step |-> "rebuild", ok |-> TRUE])
          /\ \A n \in DataNames : (data[n] # "absent" /\ data'[n] = "absent") =>
                \E r \in Ingests :
                    /\ Did(r, "rebuild")
                    /\ req'[r].log = Append(req[r].log, [step |-> "unlink", ok |-> TRUE])]_vars

\* an upload of two files answered 500 at the persist step: both files are still
\* staged, the documents it inserted are in the index, the handle is the old one
C6_Witness ==
    \E r \in Ingests :
        /\ req[r].resp = 500
        /\ Len(req[r].files) = 2
        /\ LastStep(r) = [step |-> "persist", ok |-> FALSE]
        /\ req[r].inserted # <<>>
        /\ \A i \in 1..Len(req[r].inserted) : \E j \in 1..Len(index) : index[j] = req[r].inserted[i]
        /\ \A i \in 1..2 : data[req[r].files[i]] = "whole"
        /\ query_engine = StartupEngine

\* C7: the documents an upload inserts are exactly its accepted files, each once;
\* no other file (one in ./data at startup, one left by a failed upload) is
\* inserted, and a filtered file is reported as removed and never staged.
C7_InsertsExactlyAccepted ==
    \A r \in Ingests :
        LET accepted == filter_file_format(req[r].upload).filtered_files
            ins == req[r].inserted
        IN  /\ \A i \in 1..Len(ins) : \E k \in 1..Len(accepted) : ins[i].filename = accepted[k]
            /\ \A i, j \in 1..Len(ins) : i # j => ins[i].filename # ins[j].filename
            /\ Did(r, "insert") =>
                  \A k \in 1..Len(accepted) : \E i \in 1..Len(ins) : ins[i].filename = accepted[k]
            /\ \A k \in 1..Len(req[r].removed_documents) :
                  /\ req[r].removed_documents[k] \notin DataNames
                  /\ \A i \in 1..Len(ins) : ins[i].filename # req[r].removed_documents[k]

\* C8: every source of a query_with_context answer has the four fields text,
\* score, filename and metadata, the text at most 500 characters long.
C8_SourcesHaveFourFields ==
    \A r \in Requests :
        (req[r].endpoint = "query_with_context" /\ req[r].resp = 200) =>
            \A i \in 1..Len(req[r].sources) :
                /\ DOMAIN req[r].sources[i] = {"text", "score", "filename", "metadata"}
                /\ Len(req[r].sources[i].text) <= 500

\* C9: nothing makes an upload wait for another: while the handler of one upload
\* is suspended in the middle of staging a file, any other handler can start
\* and, once started, can take each of its steps.
C9_NoMutualExclusion ==
    \A r, o \in Requests :
        (r # o /\ req[o].pc = "await") =>
            /\ Starts(r) => ENABLED IngestStart(r)
            /\ (sv_cur = r /\ req[r].pc = "open") => ENABLED OpenFile(r)
            /\ (sv_cur = r /\ req[r].pc = "read") => ENABLED ReadChunk(r)
            /\ (sv_cur = r /\ req[r].pc = "insert") => ENABLED Insert(r)
            /\ (sv_cur = r /\ req[r].pc = "persist") => ENABLED Persist(r)
            /\ (sv_cur = r /\ req[r].pc = "rebuild") => ENABLED Rebuild(r)
            /\ (sv_cur = r /\ req[r].pc = "cleanup") => ENABLED Unlink(r)

\* between two reads of one upload another upload has run from staging to
\* cleanup: it indexed the half-written file of the first, persisted the index,
\* replaced the query handle and deleted the file the first is still writing
C9_Witness ==
    \E r, o \in Ingests :
        /\ r # o
        /\ req[o].pc = "await"
        /\ req[r].resp = 200
        /\ req[r].files = <<req[o].files[req[o].pos]>>
        /\ \E i \in 1..Len(req[r].inserted) :
              req[r].inserted[i] = [filename |-> req[o].files[req[o].pos], whole |-> FALSE]
        /\ storage = index
        /\ query_engine.gen = 1
        /\ data[req[o].files[req[o].pos]] = "absent"

\* C10: the query handle keeps the response mode it was created with
C10_ResponseModeKept == query_engine.response_mode = StartupEngine.response_mode

=============================================================================
